---- MODULE Spec2Model ----
(***************************************************************************)
(* A model of app/server.go: a TCP accept loop that starts one goroutine   *)
(* per connection; each goroutine parses one HTTP request, routes it by    *)
(* path to one of five handlers, writes one response and closes.           *)
(*                                                                         *)
(* Representation choices                                                  *)
(*   - Go strings (paths, header names and values) are sequences of        *)
(*     one-character strings.                                              *)
(*   - Byte slices (bodies, file contents) are run-length encoded: a       *)
(*     sequence of runs <<byte, count>>, no two neighbouring runs with the *)
(*     same byte, every count positive.  The encoding is canonical, so     *)
(*     two byte slices are equal iff their encodings are; it lets a body   *)
(*     of 1 MiB be a value of the model.                                   *)
(*   - File system paths are Go strings; the file system maps the paths    *)
(*     that exist to a directory or a regular file.                        *)
(***************************************************************************)
EXTENDS Integers, Sequences, FiniteSets, TLC

(***************************************************************************)
(* Program constants                                                       *)
(***************************************************************************)
dataDir == <<"/","t","m","p","/","d","a","t","a","/","c","o","d","e","c","r","a","f","t","e","r","s",".","i","o","/","h","t","t","p","-","s","e","r","v","e","r","-","t","e","s","t","e","r">>

maxRequestSize == 1024 * 1024

StatusOK == 200

StatusCreated == 201

StatusNotFound == 404

StatusMethodNotAllowed == 405

StatusInternalServerError == 500

(***************************************************************************)
(* Bounds of the model                                                     *)
(***************************************************************************)
\* connections the listener accepts in one behaviour
MaxConns == 3

\* goroutine slots: a slot is free again once its goroutine has returned
Slots == {1, 2}

(***************************************************************************)
(* Strings                                                                 *)
(***************************************************************************)
Slash == "/"

HasPrefix(s, p) == Len(s) >= Len(p) /\ SubSeq(s, 1, Len(p)) = p

\* strings.Contains(s, sub)
Contains(s, sub) ==
  \E i \in 1..(Len(s) - Len(sub) + 1) : SubSeq(s, i, i + Len(sub) - 1) = sub

\* index of the first Slash of s, 0 when there is none
IndexSlash(s) ==
  IF \E i \in 1..Len(s) : s[i] = Slash
    THEN CHOOSE i \in 1..Len(s) : s[i] = Slash /\ \A j \in 1..(i-1) : s[j] # Slash
    ELSE 0

\* a split that leaves out empty parts
RECURSIVE SplitN_SkipEmpty(_, _)
SplitN_SkipEmpty(s, n) ==
  IF s = <<>> THEN <<>>
  ELSE IF n = 1 \/ IndexSlash(s) = 0 THEN <<s>>
  ELSE IF IndexSlash(s) = 1 THEN SplitN_SkipEmpty(Tail(s), n)
  ELSE <<SubSeq(s, 1, IndexSlash(s) - 1)>>
         \o SplitN_SkipEmpty(SubSeq(s, IndexSlash(s) + 1, Len(s)), n - 1)

\* strings.SplitN(s, "/", n) for n >= 1: at most n parts, the last one unsplit
RECURSIVE SplitN(_, _)
SplitN(s, n) ==
  IF n = 1 \/ IndexSlash(s) = 0
    THEN <<s>>
    ELSE <<SubSeq(s, 1, IndexSlash(s) - 1)>>
           \o SplitN(SubSeq(s, IndexSlash(s) + 1, Len(s)), n - 1)

\* strings.Split(s, "/"): every part
RECURSIVE Split(_)
Split(s) ==
  IF IndexSlash(s) = 0
    THEN <<s>>
    ELSE <<SubSeq(s, 1, IndexSlash(s) - 1)>>
           \o Split(SubSeq(s, IndexSlash(s) + 1, Len(s)))

\* the code point of each character the model's strings use
Ord(ch) ==
  CASE ch = " " -> 32  [] ch = "*" -> 42  [] ch = "," -> 44  [] ch = "-" -> 45
    [] ch = "." -> 46  [] ch = "/" -> 47  [] ch = "0" -> 48  [] ch = ";" -> 59
    [] ch = "=" -> 61  [] ch = "G" -> 71  [] ch = "I" -> 73  [] ch = "P" -> 80
    [] ch = "Z" -> 90  [] ch = "a" -> 97  [] ch = "b" -> 98  [] ch = "c" -> 99
    [] ch = "d" -> 100 [] ch = "e" -> 101 [] ch = "f" -> 102 [] ch = "g" -> 103
    [] ch = "h" -> 104 [] ch = "i" -> 105 [] ch = "l" -> 108 [] ch = "m" -> 109
    [] ch = "n" -> 110 [] ch = "o" -> 111 [] ch = "p" -> 112 [] ch = "q" -> 113
    [] ch = "r" -> 114
    [] ch = "s" -> 115 [] ch = "t" -> 116 [] ch = "u" -> 117 [] ch = "v" -> 118
    [] ch = "x" -> 120 [] ch = "y" -> 121 [] ch = "z" -> 122

(***************************************************************************)
(* Byte slices, run-length encoded                                         *)
(***************************************************************************)
NoBytes == <<>>

\* append one byte
Push(b, x) ==
  IF b # <<>> /\ b[Len(b)][1] = x
    THEN [b EXCEPT ![Len(b)] = <<x, @[2] + 1>>]
    ELSE Append(b, <<x, 1>>)

\* the byte slice holding the bytes of the sequence s
RECURSIVE FromSeq(_)
FromSeq(s) ==
  IF s = <<>> THEN NoBytes ELSE Push(FromSeq(SubSeq(s, 1, Len(s) - 1)), s[Len(s)])

\* []byte(str)
BytesOf(str) == FromSeq([i \in 1..Len(str) |-> Ord(str[i])])

\* len(b)
RECURSIVE BLen(_)
BLen(b) == IF b = <<>> THEN 0 ELSE b[1][2] + BLen(Tail(b))

\* the bytes of b one by one (short slices only)
RECURSIVE Flat(_)
Flat(b) ==
  IF b = <<>> THEN <<>>
  ELSE [i \in 1..b[1][2] |-> b[1][1]] \o Flat(Tail(b))

\* a ++ b
BCat(a, b) ==
  IF a = <<>> THEN b
  ELSE IF b = <<>> THEN a
  ELSE IF a[Len(a)][1] = b[1][1]
    THEN SubSeq(a, 1, Len(a) - 1) \o <<<<b[1][1], a[Len(a)][2] + b[1][2]>>>> \o Tail(b)
    ELSE a \o b

\* b[n:] for 0 <= n; empty when n >= len(b)
RECURSIVE BDrop(_, _)
BDrop(b, n) ==
  IF b = <<>> \/ n = 0 THEN b
  ELSE IF n >= b[1][2] THEN BDrop(Tail(b), n - b[1][2])
  ELSE <<<<b[1][1], b[1][2] - n>>>> \o Tail(b)

(***************************************************************************)
(* compress/gzip into a bytes.Buffer.  The container is RFC 1952: a ten    *)
(* byte header, a deflate stream, a 32-bit check value and the input       *)
(* length modulo 2^32, both little-endian.  The deflate stream is modelled *)
(* by its stored-block form (RFC 1951, 3.2.4), the check value by the sum  *)
(* of the bytes: what the claims need of gzip is that a complete stream    *)
(* decodes to its input and an incomplete one does not.  The compressed    *)
(* inputs are parts of request paths, so sums and lengths stay far below   *)
(* 2^32 and the reduction modulo 2^32 changes nothing.                     *)
(***************************************************************************)
GzipHeader == <<31, 139, 8, 0, 0, 0, 0, 0, 0, 255>>

LE16(n) == <<n % 256, (n \div 256) % 256>>

LE32(n) == <<n % 256, (n \div 256) % 256, (n \div 65536) % 256, (n \div 16777216) % 256>>

RECURSIVE ByteSum(_)
ByteSum(s) == IF s = <<>> THEN 0 ELSE s[1] + ByteSum(Tail(s))

\* one final stored block holding s (Len(s) < 65536)
DeflateStored(s) == <<1>> \o LE16(Len(s)) \o LE16(65535 - Len(s)) \o s

\* gzip.NewWriter(&buf) followed by gzipWriter.Write(content): the header
\* goes to buf, the content stays in the compressor until Close; a write to
\* a bytes.Buffer returns no error
gzipWrite(content) ==
  [buf |-> GzipHeader, pending |-> Flat(content), err |-> FALSE]

\* the writer closed without flushing what it holds
gzipClose_NoFlush(w) == FromSeq(w.buf)

\* gzipWriter.Close() followed by buf.Bytes(): the pending block and the
\* trailer are flushed to buf
gzipClose(w) ==
  FromSeq(w.buf \o DeflateStored(w.pending)
            \o LE32(ByteSum(w.pending)) \o LE32(Len(w.pending)))

\* the reader's side, used to state what a client decodes: [ok, data]
Gunzip(b) ==
  LET s == Flat(b)
      n == IF Len(s) >= 13 THEN s[12] + 256 * s[13] ELSE 0
      data == SubSeq(s, 16, 15 + n)
  IN IF /\ Len(s) >= 23
        /\ SubSeq(s, 1, 10) = GzipHeader
        /\ s[11] = 1
        /\ Len(s) = 23 + n
        /\ LE16(65535 - n) = SubSeq(s, 14, 15)
        /\ SubSeq(s, 16 + n, 19 + n) = LE32(ByteSum(data))
        /\ SubSeq(s, 20 + n, 23 + n) = LE32(n)
       THEN [ok |-> TRUE, data |-> FromSeq(data)]
       ELSE [ok |-> FALSE, data |-> NoBytes]

(***************************************************************************)
(* path/filepath on rooted slash-separated paths                           *)
(***************************************************************************)
\* s without its trailing slashes
RECURSIVE StripTrailingSlashes(_)
StripTrailingSlashes(s) ==
  IF s # <<>> /\ s[Len(s)] = Slash
    THEN StripTrailingSlashes(SubSeq(s, 1, Len(s) - 1))
    ELSE s

\* what follows the last Slash of s, s itself when it has none
RECURSIVE LastElement(_)
LastElement(s) ==
  IF IndexSlash(s) = 0 THEN s
  ELSE LastElement(SubSeq(s, IndexSlash(s) + 1, Len(s)))

\* filepath.Base
Base(path) ==
  IF path = <<>> THEN <<".">>
  ELSE LET stripped == StripTrailingSlashes(path)
           last == LastElement(stripped)
       IN IF last = <<>> THEN <<Slash>> ELSE last

\* the elements of a rooted path after Clean: no empty element, no ".",
\* each ".." removed with the element before it, a leading ".." dropped
RECURSIVE CleanElements(_, _)
CleanElements(parts, acc) ==
  IF parts = <<>> THEN acc
  ELSE LET e == parts[1]
       IN IF e = <<>> \/ e = <<".">> THEN CleanElements(Tail(parts), acc)
          ELSE IF e = <<".", ".">>
            THEN CleanElements(Tail(parts),
                               IF acc = <<>> THEN acc ELSE SubSeq(acc, 1, Len(acc) - 1))
          ELSE CleanElements(Tail(parts), Append(acc, e))

\* the rooted path with the elements els
RECURSIVE PathOf(_)
PathOf(els) ==
  IF els = <<>> THEN <<Slash>>
  ELSE IF Len(els) = 1 THEN <<Slash>> \o els[1]
  ELSE PathOf(SubSeq(els, 1, Len(els) - 1)) \o <<Slash>> \o els[Len(els)]

Elements(path) == CleanElements(Split(path), <<>>)

\* filepath.Clean of a rooted path
Clean(path) == PathOf(Elements(path))

\* filepath.Join(dir, elem) for non-empty dir and elem
Join(dir, elem) == Clean(dir \o <<Slash>> \o elem)

\* filepath.Dir of a cleaned rooted path
Dir(path) ==
  LET els == Elements(path)
  IN IF els = <<>> THEN <<Slash>> ELSE PathOf(SubSeq(els, 1, Len(els) - 1))

\* the proper ancestors of a cleaned path, the root first
Ancestors(path) ==
  LET els == Elements(path)
  IN [i \in 1..Len(els) |-> PathOf(SubSeq(els, 1, i - 1))]

(***************************************************************************)
(* The file system: the paths that exist, each a directory or a regular    *)
(* file with its bytes.  Errors are the errno of the failing system call.  *)
(***************************************************************************)
DirNode == [kind |-> "dir", data |-> NoBytes]

FileNode(data) == [kind |-> "file", data |-> data]

Exists(f, p) == p \in DOMAIN f

IsDir(f, p) == Exists(f, p) /\ f[p].kind = "dir"

IsFile(f, p) == Exists(f, p) /\ f[p].kind = "file"

\* the error of resolving the directory part of p: the first ancestor that
\* is missing (ENOENT) or is a regular file (ENOTDIR)
LookupErr(f, p) ==
  LET anc == Ancestors(p)
      bad == {i \in 1..Len(anc) : ~IsDir(f, anc[i])}
  IN IF bad = {} THEN "nil"
     ELSE LET i == CHOOSE k \in bad : \A j \in bad : k <= j
          IN IF IsFile(f, anc[i]) THEN "ENOTDIR" ELSE "ENOENT"

\* os.ReadFile: [err, data]
ReadFile(f, p) ==
  IF LookupErr(f, p) # "nil" THEN [err |-> LookupErr(f, p), data |-> NoBytes]
  ELSE IF ~Exists(f, p) THEN [err |-> "ENOENT", data |-> NoBytes]
  ELSE IF IsDir(f, p) THEN [err |-> "EISDIR", data |-> NoBytes]
  ELSE [err |-> "nil", data |-> f[p].data]

\* os.IsNotExist
IsNotExist(err) == err = "ENOENT"

\* os.MkdirAll: [err, fs]
MkdirAll(f, p) ==
  LET chain == Ancestors(p) \o <<p>>
  IN IF \E i \in 1..Len(chain) : IsFile(f, chain[i])
       THEN [err |-> "ENOTDIR", fs |-> f]
       ELSE [err |-> "nil",
             fs |-> [q \in DOMAIN f \cup {chain[i] : i \in 1..Len(chain)} |->
                       IF q \in DOMAIN f THEN f[q] ELSE DirNode]]

\* the file opened for writing without O_TRUNC: its bytes stay
OpenFile_NoTrunc(f, p) ==
  IF LookupErr(f, p) # "nil" THEN [err |-> LookupErr(f, p), fs |-> f]
  ELSE IF IsDir(f, p) THEN [err |-> "EISDIR", fs |-> f]
  ELSE IF Exists(f, p) THEN [err |-> "nil", fs |-> f]
  ELSE [err |-> "nil",
        fs |-> [q \in DOMAIN f \cup {p} |-> IF q = p THEN FileNode(NoBytes) ELSE f[q]]]

\* os.WriteFile, first half: OpenFile(name, O_WRONLY|O_CREATE|O_TRUNC, perm):
\* [err, fs]
OpenFile(f, p) ==
  IF LookupErr(f, p) # "nil" THEN [err |-> LookupErr(f, p), fs |-> f]
  ELSE IF IsDir(f, p) THEN [err |-> "EISDIR", fs |-> f]
  ELSE [err |-> "nil",
        fs |-> [q \in DOMAIN f \cup {p} |-> IF q = p THEN FileNode(NoBytes) ELSE f[q]]]

\* os.WriteFile, second half: f.Write(data) at offset 0 of the open file,
\* then f.Close(); bytes of the file beyond the written ones stay
WriteData(f, p, data) ==
  [f EXCEPT ![p] = FileNode(BCat(data, BDrop(@.data, BLen(data))))]

(***************************************************************************)
(* net/http as the program uses it                                         *)
(***************************************************************************)
UserAgentKey == <<"U","s","e","r","-","A","g","e","n","t">>

AcceptEncodingKey == <<"A","c","c","e","p","t","-","E","n","c","o","d","i","n","g">>

\* the same names as a client may spell them
UserAgentLower == <<"u","s","e","r","-","a","g","e","n","t">>

AcceptEncodingLower == <<"a","c","c","e","p","t","-","e","n","c","o","d","i","n","g">>

\* textproto.CanonicalMIMEHeaderKey on the header names the clients send
CanonicalMIMEHeaderKey(name) ==
  CASE name = UserAgentLower -> UserAgentKey
    [] name = AcceptEncodingLower -> AcceptEncodingKey
    [] OTHER -> name

\* the values of the header lines of hs named k, in the order received
RECURSIVE ValuesOf(_, _)
ValuesOf(hs, k) ==
  IF hs = <<>> THEN <<>>
  ELSE (IF CanonicalMIMEHeaderKey(hs[1][1]) = k THEN <<hs[1][2]>> ELSE <<>>)
         \o ValuesOf(Tail(hs), k)

\* the header lines stored under the names as received
ReadHeader_Raw(hs) ==
  [k \in {hs[i][1] : i \in 1..Len(hs)} |->
     LET idx == CHOOSE i \in 1..Len(hs) : hs[i][1] = k /\ \A j \in 1..(i-1) : hs[j][1] # k
     IN <<hs[idx][2]>>]

\* http.Header built by ReadRequest from the header lines hs
ReadHeader(hs) ==
  [k \in {CanonicalMIMEHeaderKey(hs[i][1]) : i \in 1..Len(hs)} |-> ValuesOf(hs, k)]

\* http.Header.Get: the first value of the key, "" when the key is absent
HeaderGet(h, key) ==
  IF CanonicalMIMEHeaderKey(key) \in DOMAIN h
    THEN h[CanonicalMIMEHeaderKey(key)][1]
    ELSE <<>>

\* http.StatusText
StatusText(status) ==
  CASE status = StatusOK -> "OK"
    [] status = StatusCreated -> "Created"
    [] status = StatusNotFound -> "Not Found"
    [] status = StatusMethodNotAllowed -> "Method Not Allowed"
    [] status = StatusInternalServerError -> "Internal Server Error"

\* a []byte argument: the nil slice, or a slice with its bytes
NilSlice == <<>>

Slice(b) == <<b>>

SliceBytes(content) == IF content = NilSlice THEN NoBytes ELSE content[1]

\* a map[string]string argument: nil is the empty map
NoHeaders == <<>>

\* b[:n] for 0 <= n <= len(b)
RECURSIVE BTake(_, _)
BTake(b, n) ==
  IF b = <<>> \/ n = 0 THEN NoBytes
  ELSE IF n >= b[1][2] THEN BCat(<<b[1]>>, BTake(Tail(b), n - b[1][2]))
  ELSE <<<<b[1][1], n>>>>

\* http.Response.Write of a response with Proto HTTP/1.1, no Request, the
\* given ContentLength field and a Body reading `bytes`: what reaches the
\* wire.  A ContentLength of 0 with a non-empty body means "unknown": no
\* Content-Length header, Connection: close, the body sent to its end.  A
\* positive ContentLength is sent as the header and bounds the bytes copied.
ResponseWrite(status, header, contentLength, bytes) ==
  LET unknown == contentLength = 0 /\ BLen(bytes) > 0
  IN [status |-> status,
      reason |-> StatusText(status),
      proto |-> "HTTP/1.1",
      header |-> header,
      contentLength |-> IF unknown THEN -1 ELSE contentLength,
      connClose |-> unknown,
      body |-> IF unknown THEN bytes
               ELSE BTake(bytes, IF contentLength < BLen(bytes)
                                   THEN contentLength ELSE BLen(bytes))]

\* sendResponse that leaves resp.ContentLength at its zero value
sendResponse_NoContentLength(status, content, headers) ==
  [content |-> content,
   wire |-> ResponseWrite(status, headers, 0, SliceBytes(content))]

\* sendResponse: the arguments it was given and what it wrote
sendResponse(status, content, headers) ==
  [content |-> content,
   wire |-> ResponseWrite(status, headers,
                          IF content # NilSlice THEN BLen(SliceBytes(content)) ELSE 0,
                          SliceBytes(content))]

\* acceptsGzip comparing the whole value with "gzip"
acceptsGzip_WholeValue(req) == HeaderGet(req.header, AcceptEncodingKey) = <<"g","z","i","p">>

\* acceptsGzip
acceptsGzip(req) == Contains(HeaderGet(req.header, AcceptEncodingKey), <<"g","z","i","p">>)

(***************************************************************************)
(* Routing and the handlers as functions of the request                    *)
(***************************************************************************)
RootPath == <<"/">>

UserAgentPath == <<"/","u","s","e","r","-","a","g","e","n","t">>

EchoPrefix == <<"/","e","c","h","o","/">>

FilesPrefix == <<"/","f","i","l","e","s","/">>

\* the switch with the prefixes tested without their closing slash
Route_NoClosingSlash(path) ==
  IF path = RootPath THEN "handleRoot"
  ELSE IF path = UserAgentPath THEN "handleUserAgent"
  ELSE IF HasPrefix(path, SubSeq(EchoPrefix, 1, Len(EchoPrefix) - 1)) THEN "handleEcho"
  ELSE IF HasPrefix(path, SubSeq(FilesPrefix, 1, Len(FilesPrefix) - 1)) THEN "handleFiles"
  ELSE "handleNotFound"

\* the switch of handleConnection: the first case that matches
Route(path) ==
  IF path = RootPath THEN "handleRoot"
  ELSE IF path = UserAgentPath THEN "handleUserAgent"
  ELSE IF HasPrefix(path, EchoPrefix) THEN "handleEcho"
  ELSE IF HasPrefix(path, FilesPrefix) THEN "handleFiles"
  ELSE "handleNotFound"

TextPlain == ("Content-Type" :> "text/plain")

OctetStream == ("Content-Type" :> "application/octet-stream")

\* handleNotFound
handleNotFound == sendResponse(StatusNotFound, NilSlice, NoHeaders)

\* handleRoot answering with the headers of handleUserAgent
handleRoot_TextPlain == sendResponse(StatusOK, NilSlice, TextPlain)

\* handleRoot
handleRoot == sendResponse(StatusOK, NilSlice, NoHeaders)

\* handleUserAgent
handleUserAgent(req) ==
  sendResponse(StatusOK, Slice(BytesOf(HeaderGet(req.header, UserAgentKey))), TextPlain)

\* handleEcho
handleEcho(req) ==
  LET parts == SplitN(req.path, 3)
      content == BytesOf(parts[3])
      w == gzipWrite(content)
  IN IF Len(parts) < 3 THEN handleNotFound
     ELSE IF acceptsGzip(req)
       THEN IF w.err
              THEN sendResponse(StatusInternalServerError, NilSlice, NoHeaders)
              ELSE sendResponse(StatusOK, Slice(gzipClose(w)),
                                TextPlain @@ ("Content-Encoding" :> "gzip"))
       ELSE sendResponse(StatusOK, Slice(content), TextPlain)

(***************************************************************************)
(* What clients send.  A request on the wire is well formed or not; a well *)
(* formed one has a method, a path (the parsed URL's Path), header lines,  *)
(* a declared Content-Length, the body bytes the client sends and what the *)
(* client does after them: end its side of the stream ("eof") or go silent *)
(* ("stall").  The set is the union of a family that varies method and     *)
(* path, one that varies the header lines and one that varies the body.    *)
(***************************************************************************)
Methods == {"GET", "POST", "PUT", "HEAD", "DELETE"}

RoutePaths ==
  { RootPath, UserAgentPath, UserAgentPath \o <<"/">>,
    <<"/","e","c","h","o">>, EchoPrefix, EchoPrefix \o <<"a">>,
    EchoPrefix \o <<"a","/","b">>, <<"/","e","c","h","o","a","/","b">>,
    <<"/","f","i","l","e","s">>, FilesPrefix, FilesPrefix \o <<"a">>,
    FilesPrefix \o <<"b","/","a">>, FilesPrefix \o <<".">>,
    FilesPrefix \o <<".",".">>, FilesPrefix \o <<".",".","/","a">>,
    <<"/","f","i","l","e","s","a","/","b">>, <<"/","a">>, <<"*">> }

HeaderPaths == { UserAgentPath, EchoPrefix, EchoPrefix \o <<"a","/","b">> }

HeaderNames == { UserAgentKey, UserAgentLower, AcceptEncodingKey, AcceptEncodingLower }

GzipToken == <<"g","z","i","p">>

HeaderValues == { GzipToken, <<"a">> }

HeaderLine == HeaderNames \X HeaderValues

HeaderLists ==
  {<<>>} \cup {<<h>> : h \in HeaderLine} \cup {<<h, g>> : h \in HeaderLine, g \in HeaderLine}

\* Accept-Encoding values that hold "gzip" somewhere, or nowhere
EncodingValues ==
  { <<"d","e","f","l","a","t","e",","," ","g","z","i","p">>,
    <<"g","z","i","p",";","q","=","0">>,
    <<"x","g","z","i","p","x">>,
    <<"d","e","f","l","a","t","e">>,
    <<"G","Z","I","P">> }

BodyPaths == { FilesPrefix \o <<"a">>, FilesPrefix \o <<".",".">> }

ByteX == Ord("x")

ByteY == Ord("y")

\* [declared Content-Length, bytes sent, what the client does next]
Framing(declared, sent, after) == [declared |-> declared, sent |-> sent, after |-> after]

NoBodySent == Framing(0, NoBytes, "eof")

Framings ==
  { Framing(1, <<<<ByteX, 1>>>>, "eof"),
    Framing(2, <<<<ByteX, 1>>, <<ByteY, 1>>>>, "eof"),
    Framing(1, <<<<ByteY, 1>>, <<ByteX, 1>>>>, "eof"),
    Framing(maxRequestSize, <<<<ByteY, maxRequestSize>>>>, "eof"),
    Framing(maxRequestSize + 1, <<<<ByteX, maxRequestSize + 1>>>>, "eof"),
    Framing(maxRequestSize + 2, <<<<ByteX, maxRequestSize + 1>>>>, "stall"),
    Framing(2, <<<<ByteX, 1>>>>, "eof"),
    Framing(2, <<<<ByteX, 1>>>>, "stall") }

WireRequest(kind, method, path, headers, framing) ==
  [kind |-> kind, method |-> method, path |-> path, headers |-> headers, framing |-> framing]

Malformed ==
  { WireRequest(k, "", <<>>, <<>>, NoBodySent) : k \in {"badRequestLine", "badHeader", "eof"} }

WireRequests ==
  Malformed
  \cup { WireRequest("ok", m, p, <<>>, NoBodySent) : m \in Methods, p \in RoutePaths }
  \cup { WireRequest("ok", m, p, h, NoBodySent) :
           m \in {"GET", "POST"}, p \in HeaderPaths, h \in HeaderLists }
  \cup { WireRequest("ok", "GET", EchoPrefix \o <<"a">>, <<<<n, v>>>>, NoBodySent) :
           n \in {AcceptEncodingKey, AcceptEncodingLower}, v \in EncodingValues }
  \cup { WireRequest("ok", "POST", p, <<>>, f) : p \in BodyPaths, f \in Framings }

\* what clients that are connected at the same time send: one request for
\* each way through handleConnection, and POSTs of "xy" and of "y" to the
\* same file
ConcurrentRequests ==
  { WireRequest("eof", "", <<>>, <<>>, NoBodySent) }
  \cup { WireRequest("ok", "GET", p, <<>>, NoBodySent) :
           p \in { RootPath, UserAgentPath, EchoPrefix \o <<"a">>, <<"/","a">>,
                    FilesPrefix \o <<"a">>, FilesPrefix \o <<".",".">> } }
  \cup { WireRequest("ok", "PUT", FilesPrefix \o <<"a">>, <<>>, NoBodySent) }
  \cup { WireRequest("ok", "POST", FilesPrefix \o <<"a">>, <<>>, f) :
           f \in { Framing(2, <<<<ByteX, 1>>, <<ByteY, 1>>>>, "eof"),
                    Framing(1, <<<<ByteY, 1>>, <<ByteX, 1>>>>, "eof"),
                    Framing(2, <<<<ByteX, 1>>>>, "stall") } }

\* the requests n clients send
Workload(n) == IF n = 1 THEN WireRequests ELSE ConcurrentRequests

NoRequest == [method |-> "", path |-> <<>>, header |-> <<>>, body |-> NoBodySent]

\* parseRequest: http.ReadRequest reads the request line and the headers
\* only; the body stays on the connection behind http.MaxBytesReader
parseRequest(w) ==
  IF w.kind # "ok"
    THEN [err |-> w.kind, req |-> NoRequest]
    ELSE [err |-> "nil",
          req |-> [method |-> w.method, path |-> w.path,
                   header |-> ReadHeader(w.headers), body |-> w.framing]]

\* the bytes the body reader can deliver: at most the declared length
Available(body) ==
  IF BLen(body.sent) < body.declared THEN BLen(body.sent) ELSE body.declared

\* io.ReadAll(req.Body) behind MaxBytesReader(nil, body, limit) waits for
\* the client when neither the limit nor the end of the body is reached
ReadAllBlocks(body, limit) ==
  /\ Available(body) <= limit
  /\ BLen(body.sent) < body.declared
  /\ body.after = "stall"

\* io.ReadAll without the limit
ReadAll_Unlimited(body, limit) ==
  IF BLen(body.sent) < body.declared
    THEN [err |-> "unexpected EOF", data |-> NoBytes]
    ELSE [err |-> "nil", data |-> BTake(body.sent, body.declared)]

\* io.ReadAll behind a reader that gives up when the limit is reached, not
\* when it is passed
ReadAll_LimitExclusive(body, limit) ==
  IF Available(body) >= limit
    THEN [err |-> "http: request body too large", data |-> NoBytes]
  ELSE IF BLen(body.sent) < body.declared
    THEN [err |-> "unexpected EOF", data |-> NoBytes]
  ELSE [err |-> "nil", data |-> BTake(body.sent, body.declared)]

\* io.ReadAll(req.Body) behind MaxBytesReader(nil, body, limit), when it
\* returns: [err, data]
ReadAll(body, limit) ==
  IF Available(body) > limit
    THEN [err |-> "http: request body too large", data |-> NoBytes]
  ELSE IF BLen(body.sent) < body.declared
    THEN [err |-> "unexpected EOF", data |-> NoBytes]
  ELSE [err |-> "nil", data |-> BTake(body.sent, body.declared)]

(***************************************************************************)
(* State                                                                   *)
(***************************************************************************)
VARIABLES
  main,       \* where the goroutine of main is
  acceptErrors, \* how often main logged "Error accepting connection"
  accepted,   \* connections accepted so far
  clients,    \* connections the clients keep open at the same time
  pc,         \* per slot: where its goroutine is
  wire,       \* per slot: what the client sends on the connection
  req,        \* per slot: the parsed request
  handler,    \* per slot: the handler the switch of handleConnection called
  local,      \* per slot: filePath, content and err of handleFiles
  out,        \* per slot: the responses written to the connection, in order
  closed,     \* per slot: how often conn.Close ran
  fsops,      \* per slot: the file system calls of the goroutine
  logs,       \* per slot: the messages it logged
  fs,         \* the file system
  posted      \* file path -> the body of the last POST answered 201 for it,
              \* and whether that POST replaced the body of an earlier one

vars == <<main, acceptErrors, accepted, clients, pc, wire, req, handler, local, out, closed, fsops, logs, fs, posted>>

\* nothing received yet
NoWire == WireRequest("none", "", <<>>, <<>>, NoBodySent)

NoLocal == [filePath |-> <<>>, content |-> NoBytes, err |-> "nil"]

\* the directories of a machine on which dataDir was never created
BareFs == (<<Slash>> :> DirNode) @@ (<<"/","t","m","p">> :> DirNode)

\* the same machine with dataDir in place
ReadyFs == MkdirAll(BareFs, dataDir).fs

TypeOK ==
  /\ main \in {"accept", "handleConnection", "exit"}
  /\ acceptErrors \in 0..MaxConns
  /\ accepted \in 0..MaxConns
  /\ clients \in 1..Cardinality(Slots)
  /\ pc \in [Slots -> {"free", "parseRequest", "route", "handleRoot", "handleUserAgent",
                        "handleEcho", "handleFiles", "handleNotFound",
                        "mkdirAll", "openFile", "writeData", "close", "done"}]
  /\ \A c \in Slots : closed[c] \in 0..1 /\ Len(out[c]) \in 0..1

InitWith(n) ==
  /\ main = "accept"
  /\ acceptErrors = 0
  /\ accepted = 0
  /\ clients = n
  /\ pc = [c \in Slots |-> "free"]
  /\ wire = [c \in Slots |-> NoWire]
  /\ req = [c \in Slots |-> NoRequest]
  /\ handler = [c \in Slots |-> "none"]
  /\ local = [c \in Slots |-> NoLocal]
  /\ out = [c \in Slots |-> <<>>]
  /\ closed = [c \in Slots |-> 0]
  /\ fsops = [c \in Slots |-> {}]
  /\ logs = [c \in Slots |-> <<>>]
  /\ fs \in {BareFs, ReadyFs}
  /\ posted = <<>>

\* one client connection at a time
Init == InitWith(1)

Running(c) == pc[c] \notin {"free", "done"}

(***************************************************************************)
(* main: listener.Accept succeeds and handleConnection is started in its   *)
(* own goroutine, which takes the lowest free slot.                        *)
(***************************************************************************)
\* handleConnection(conn) called without "go": main runs the handler itself
Spawn_Inline ==
  main' = "handleConnection"

\* go handleConnection(conn): main goes on to the next listener.Accept
Spawn ==
  main' = "accept"

\* listener.Accept returns; MaxConns bounds how often it does
Accepting ==
  /\ main = "accept"
  /\ accepted + acceptErrors < MaxConns

Accept(c) ==
  /\ Accepting
  /\ Spawn
  /\ Cardinality({d \in Slots : Running(d)}) < clients
  /\ ~Running(c)
  /\ \A d \in Slots : d < c => Running(d)
  /\ accepted' = accepted + 1
  /\ pc' = [pc EXCEPT ![c] = "parseRequest"]
  /\ wire' = [wire EXCEPT ![c] = NoWire]
  /\ req' = [req EXCEPT ![c] = NoRequest]
  /\ handler' = [handler EXCEPT ![c] = "none"]
  /\ local' = [local EXCEPT ![c] = NoLocal]
  /\ out' = [out EXCEPT ![c] = <<>>]
  /\ closed' = [closed EXCEPT ![c] = 0]
  /\ fsops' = [fsops EXCEPT ![c] = {}]
  /\ logs' = [logs EXCEPT ![c] = <<>>]
  /\ UNCHANGED <<acceptErrors, clients, fs, posted>>

\* listener.Accept fails: log.Printf("Error accepting connection") and
\* continue with the next listener.Accept
AcceptError ==
  /\ Accepting
  /\ acceptErrors' = acceptErrors + 1
  /\ main' = "accept"
  /\ UNCHANGED <<accepted, clients, pc, wire, req, handler, local, out, closed,
                 fsops, logs, fs, posted>>

\* a step of the goroutine of slot c that leaves the rest of its state alone
Goto(c, next) == pc' = [pc EXCEPT ![c] = next]

Respond(c, r) == out' = [out EXCEPT ![c] = Append(@, r)]

Log(c, msg) == logs' = [logs EXCEPT ![c] = Append(@, msg)]

(***************************************************************************)
(* handleConnection                                                        *)
(***************************************************************************)
\* parseRequest failed and the goroutine answers 500 before it returns
ParseFailed_Answers(c) ==
  /\ Log(c, "Error parsing request")
  /\ Goto(c, "close")
  /\ Respond(c, sendResponse(StatusInternalServerError, NilSlice, NoHeaders))
  /\ UNCHANGED req

\* parseRequest failed: log and return, nothing else
ParseFailed(c) ==
  /\ Log(c, "Error parsing request")
  /\ Goto(c, "close")
  /\ UNCHANGED <<req, out>>

\* req, err := parseRequest(conn), the client having sent w
ParseRequest(c) ==
  /\ pc[c] = "parseRequest"
  /\ \E w \in Workload(clients) :
       /\ wire' = [wire EXCEPT ![c] = w]
       /\ IF parseRequest(w).err # "nil"
            THEN ParseFailed(c)
            ELSE /\ req' = [req EXCEPT ![c] = parseRequest(w).req]
                 /\ Goto(c, "route")
                 /\ UNCHANGED <<out, logs>>
  /\ UNCHANGED <<main, acceptErrors, accepted, clients, handler, local, closed, fsops, fs, posted>>

\* the switch on req.URL.Path
Dispatch(c) ==
  /\ pc[c] = "route"
  /\ handler' = [handler EXCEPT ![c] = Route(req[c].path)]
  /\ Goto(c, Route(req[c].path))
  /\ UNCHANGED <<main, acceptErrors, accepted, clients, wire, req, local, out, closed, fsops, logs, fs, posted>>

\* a handler that only answers
Answer(c, at, r) ==
  /\ pc[c] = at
  /\ Respond(c, r)
  /\ Goto(c, "close")
  /\ UNCHANGED <<main, acceptErrors, accepted, clients, wire, req, handler, local, closed, fsops, logs, fs, posted>>

HandleRoot(c) == Answer(c, "handleRoot", handleRoot)

HandleUserAgent(c) == Answer(c, "handleUserAgent", handleUserAgent(req[c]))

HandleEcho(c) == Answer(c, "handleEcho", handleEcho(req[c]))

HandleNotFound(c) == Answer(c, "handleNotFound", handleNotFound)

\* handleConnection without the deferred conn.Close: the goroutine returns
\* and the connection stays open
Close_Leak(c) ==
  /\ pc[c] = "close"
  /\ Goto(c, "done")
  /\ UNCHANGED <<main, acceptErrors, accepted, clients, wire, req, handler, local, out, closed,
                 fsops, logs, fs, posted>>

\* the deferred conn.Close, and the goroutine returns
Close(c) ==
  /\ pc[c] = "close"
  /\ closed' = [closed EXCEPT ![c] = @ + 1]
  /\ Goto(c, "done")
  /\ UNCHANGED <<main, acceptErrors, accepted, clients, wire, req, handler, local, out, fsops, logs, fs, posted>>

(***************************************************************************)
(* handleFiles                                                             *)
(***************************************************************************)
\* filePath := filepath.Join(dataDir, filepath.Base(req.URL.Path))
FilePath(path) == Join(dataDir, Base(path))

\* the switch on req.Method with HEAD-like methods served as GET
FilesCase_DefaultGet(method) ==
  IF method = "POST" THEN "post" ELSE "get"

\* the switch on req.Method with PUT handled by the POST case
FilesCase_PutIsPost(method) ==
  IF method = "GET" THEN "get"
  ELSE IF method \in {"POST", "PUT"} THEN "post"
  ELSE "default"

\* the switch on req.Method
FilesCase(method) ==
  IF method = "GET" THEN "get"
  ELSE IF method = "POST" THEN "post"
  ELSE "default"

\* os.IsNotExist taken to hold of every error
GetResponse_AllNotFound(r) ==
  IF r.err # "nil" THEN handleNotFound
  ELSE sendResponse(StatusOK, Slice(r.data), OctetStream)

\* the GET case after os.ReadFile returned r
GetResponse(r) ==
  IF r.err # "nil"
    THEN IF IsNotExist(r.err)
           THEN handleNotFound
           ELSE sendResponse(StatusInternalServerError, NilSlice, NoHeaders)
    ELSE sendResponse(StatusOK, Slice(r.data), OctetStream)

Touch(c, op, path) == fsops' = [fsops EXCEPT ![c] = @ \cup {[op |-> op, path |-> path]}]

\* an error branch of the POST case without its return: log, answer 500 and
\* go on with the statement after the read of the body
Fail_NoReturn(c, msg, err) ==
  /\ Log(c, msg)
  /\ Respond(c, sendResponse(StatusInternalServerError, NilSlice, NoHeaders))
  /\ Goto(c, "mkdirAll")

\* an error branch of the POST case: log, answer 500, return
Fail(c, msg, err) ==
  /\ Log(c, msg)
  /\ Respond(c, sendResponse(StatusInternalServerError, NilSlice, NoHeaders))
  /\ Goto(c, "close")

FilesGet(c) ==
  /\ pc[c] = "handleFiles"
  /\ FilesCase(req[c].method) = "get"
  /\ LET p == FilePath(req[c].path)
         r == ReadFile(fs, p)
     IN /\ local' = [local EXCEPT ![c] = [filePath |-> p, content |-> r.data, err |-> r.err]]
        /\ Touch(c, "ReadFile", p)
        /\ Respond(c, GetResponse(r))
        /\ logs' = [logs EXCEPT ![c] =
                      IF r.err # "nil" /\ ~IsNotExist(r.err)
                        THEN Append(@, "Error reading file") ELSE @]
  /\ Goto(c, "close")
  /\ UNCHANGED <<main, acceptErrors, accepted, clients, wire, req, handler, closed, fs, posted>>

\* the goroutine of slot c waits in io.ReadAll for bytes that never come
Blocked(c) ==
  /\ pc[c] = "handleFiles"
  /\ FilesCase(req[c].method) = "post"
  /\ ReadAllBlocks(req[c].body, maxRequestSize)

\* content, err := io.ReadAll(req.Body)
FilesReadBody(c) ==
  /\ pc[c] = "handleFiles"
  /\ FilesCase(req[c].method) = "post"
  /\ ~Blocked(c)
  /\ LET p == FilePath(req[c].path)
         r == ReadAll(req[c].body, maxRequestSize)
     IN /\ local' = [local EXCEPT ![c] = [filePath |-> p, content |-> r.data, err |-> r.err]]
        /\ IF r.err # "nil"
             THEN Fail(c, "Error reading request body", r.err)
             ELSE Goto(c, "mkdirAll") /\ UNCHANGED <<out, logs>>
  /\ UNCHANGED <<main, acceptErrors, accepted, clients, wire, req, handler, closed, fsops, fs, posted>>

\* os.MkdirAll(filepath.Dir(filePath), 0755)
FilesMkdirAll(c) ==
  /\ pc[c] = "mkdirAll"
  /\ LET r == MkdirAll(fs, Dir(local[c].filePath))
     IN /\ Touch(c, "MkdirAll", Dir(local[c].filePath))
        /\ fs' = r.fs
        /\ local' = [local EXCEPT ![c].err = r.err]
        /\ IF r.err # "nil"
             THEN Fail(c, "Error creating directory", r.err)
             ELSE Goto(c, "openFile") /\ UNCHANGED <<out, logs>>
  /\ UNCHANGED <<main, acceptErrors, accepted, clients, wire, req, handler, closed, posted>>

\* os.WriteFile(filePath, content, 0666): the file is opened and truncated
FilesOpenFile(c) ==
  /\ pc[c] = "openFile"
  /\ LET r == OpenFile(fs, local[c].filePath)
     IN /\ Touch(c, "WriteFile", local[c].filePath)
        /\ fs' = r.fs
        /\ local' = [local EXCEPT ![c].err = r.err]
        /\ IF r.err # "nil"
             THEN Fail(c, "Error writing file", r.err)
             ELSE Goto(c, "writeData") /\ UNCHANGED <<out, logs>>
  /\ UNCHANGED <<main, acceptErrors, accepted, clients, wire, req, handler, closed, posted>>

\* os.WriteFile, continued: the content is written and the file closed;
\* then sendResponse(conn, http.StatusCreated, nil, nil)
FilesWriteData(c) ==
  /\ pc[c] = "writeData"
  /\ fs' = WriteData(fs, local[c].filePath, local[c].content)
  /\ Respond(c, sendResponse(StatusCreated, NilSlice, NoHeaders))
  /\ posted' = [q \in DOMAIN posted \cup {local[c].filePath} |->
                  IF q = local[c].filePath
                    THEN [body |-> local[c].content, replaced |-> q \in DOMAIN posted]
                    ELSE posted[q]]
  /\ Goto(c, "close")
  /\ UNCHANGED <<main, acceptErrors, accepted, clients, wire, req, handler, local, closed, fsops, logs>>

\* default: sendResponse(conn, http.StatusMethodNotAllowed, nil, nil)
FilesMethodNotAllowed(c) ==
  /\ pc[c] = "handleFiles"
  /\ FilesCase(req[c].method) = "default"
  /\ Respond(c, sendResponse(StatusMethodNotAllowed, NilSlice, NoHeaders))
  /\ Goto(c, "close")
  /\ UNCHANGED <<main, acceptErrors, accepted, clients, wire, req, handler, local, closed, fsops, logs, fs, posted>>

(***************************************************************************)
(* The program                                                             *)
(***************************************************************************)
Next ==
  \/ \E c \in Slots : Accept(c)
  \/ AcceptError
  \/ \E c \in Slots : ParseRequest(c)
  \/ \E c \in Slots : Dispatch(c)
  \/ \E c \in Slots : HandleRoot(c)
  \/ \E c \in Slots : HandleUserAgent(c)
  \/ \E c \in Slots : HandleEcho(c)
  \/ \E c \in Slots : HandleNotFound(c)
  \/ \E c \in Slots : FilesGet(c)
  \/ \E c \in Slots : FilesReadBody(c)
  \/ \E c \in Slots : FilesMkdirAll(c)
  \/ \E c \in Slots : FilesOpenFile(c)
  \/ \E c \in Slots : FilesWriteData(c)
  \/ \E c \in Slots : FilesMethodNotAllowed(c)
  \/ \E c \in Slots : Close(c)

Spec == Init /\ [][Next]_vars

\* two client connections at a time
InitConcurrent == InitWith(2)

SpecConcurrent == InitConcurrent /\ [][Next]_vars

(***************************************************************************)
(* Properties                                                              *)
(***************************************************************************)
\* the goroutine of slot c has returned after parsing a request
Served(c) == pc[c] = "done" /\ wire[c].kind = "ok"

\* the one response of slot c as it went over the wire
Reply(c) == out[c][1].wire

\* p begins with q, character by character
Begins(p, q) == Len(p) >= Len(q) /\ \A i \in 1..Len(q) : p[i] = q[i]

Answered(c, status) == Len(out[c]) = 1 /\ Reply(c).status = status

EmptyBody(c) == Reply(c).body = NoBytes /\ Reply(c).contentLength = 0

\* the values of the header lines of w whose name is one of names
Sent(w, names) ==
  LET idx == {i \in 1..Len(w.headers) : w.headers[i][1] \in names}
  IN {w.headers[i][2] : i \in idx}

SentCount(w, names) ==
  Cardinality({i \in 1..Len(w.headers) : w.headers[i][1] \in names})

\* C1: every parsed request is routed by its path alone, first match first:
\* "/" to handleRoot, "/user-agent" to handleUserAgent, a path beginning
\* "/echo/" to handleEcho, one beginning "/files/" to handleFiles, any other
\* path to handleNotFound, which answers 404 with an empty body.
C1_RoutedByPath ==
  \A c \in Slots :
    LET p == req[c].path
        expected ==
          IF p = <<"/">> THEN "handleRoot"
          ELSE IF p = UserAgentPath THEN "handleUserAgent"
          ELSE IF Begins(p, EchoPrefix) THEN "handleEcho"
          ELSE IF Begins(p, FilesPrefix) THEN "handleFiles"
          ELSE "handleNotFound"
    IN /\ (wire[c].kind = "ok" /\ pc[c] \notin {"parseRequest", "route"})
            => handler[c] = expected
       /\ (Served(c) /\ expected = "handleNotFound")
            => Answered(c, 404) /\ EmptyBody(c)

C1_Witness ==
  \E c \in Slots :
    /\ Served(c)
    /\ req[c].path = <<"/","e","c","h","o">>
    /\ req[c].method = "POST"
    /\ handler[c] = "handleNotFound"
    /\ Answered(c, 404)

\* C2: a request for "/echo/<s>" with the one header Accept-Encoding: gzip
\* is answered 200 with Content-Encoding: gzip and a body that gunzips to
\* <s>; with no Accept-Encoding header it is answered 200 with no
\* Content-Encoding and the body <s>.
C2_EchoRoundTrip ==
  \A c \in Slots :
    (Served(c) /\ Begins(req[c].path, EchoPrefix)) =>
      LET s == SubSeq(req[c].path, Len(EchoPrefix) + 1, Len(req[c].path))
          names == {AcceptEncodingKey, AcceptEncodingLower}
      IN /\ (SentCount(wire[c], names) = 1 /\ Sent(wire[c], names) = {GzipToken}) =>
              /\ Answered(c, 200)
              /\ "Content-Encoding" \in DOMAIN Reply(c).header
              /\ Reply(c).header["Content-Encoding"] = "gzip"
              /\ Gunzip(Reply(c).body).ok
              /\ Gunzip(Reply(c).body).data = BytesOf(s)
         /\ SentCount(wire[c], names) = 0 =>
              /\ Answered(c, 200)
              /\ "Content-Encoding" \notin DOMAIN Reply(c).header
              /\ Reply(c).body = BytesOf(s)

C2_Witness ==
  \E c \in Slots :
    /\ Served(c)
    /\ req[c].path = EchoPrefix \o <<"a","/","b">>
    /\ wire[c].headers = <<<<AcceptEncodingLower, GzipToken>>>>
    /\ Answered(c, 200)
    /\ Gunzip(Reply(c).body).data = BytesOf(<<"a","/","b">>)
    /\ Reply(c).body # BytesOf(<<"a","/","b">>)

\* C3: a GET of "/files/<name>" served after a POST to the same file was
\* answered 201 is answered 200 with the body of the most recent such POST.
C3_FileRoundTrip ==
  \A c \in Slots :
    (/\ Served(c)
     /\ handler[c] = "handleFiles"
     /\ req[c].method = "GET"
     /\ local[c].filePath \in DOMAIN posted) =>
      /\ Answered(c, 200)
      /\ Reply(c).body = posted[local[c].filePath].body
      /\ BLen(Reply(c).body) <= maxRequestSize

C3_Witness ==
  \E c \in Slots :
    /\ Served(c)
    /\ handler[c] = "handleFiles"
    /\ req[c].method = "GET"
    /\ local[c].filePath \in DOMAIN posted
    /\ posted[local[c].filePath].replaced
    /\ Answered(c, 200)
    /\ Reply(c).body = <<<<ByteX, 1>>>>

\* the request of slot c is a POST to the Files handler whose body, as far
\* as the client sent it, is longer than maxRequestSize
Oversized(c) ==
  /\ wire[c].kind = "ok"
  /\ wire[c].method = "POST"
  /\ Begins(wire[c].path, FilesPrefix)
  /\ wire[c].framing.declared > maxRequestSize
  /\ BLen(wire[c].framing.sent) > maxRequestSize

C5_ContentLengthExact ==
  \A c \in Slots :
    \A i \in 1..Len(out[c]) :
      /\ out[c][i].wire.contentLength = BLen(out[c][i].wire.body)
      /\ out[c][i].wire.body = SliceBytes(out[c][i].content)

C5_Witness ==
  \E c \in Slots :
    /\ Served(c)
    /\ handler[c] = "handleEcho"
    /\ "Content-Encoding" \in DOMAIN Reply(c).header
    /\ Reply(c).contentLength = BLen(Reply(c).body)
    /\ Reply(c).contentLength > Len(req[c].path)

\* C6: GET "/files/<name>" answers 404 with an empty body when nothing
\* exists at the file path, 200 with the file's bytes when a regular file
\* does, and 500 with an empty body when the read fails otherwise (the
\* path is a directory, or leads through a regular file).
C6_GetOutcomes ==
  \A c \in Slots :
    (Served(c) /\ handler[c] = "handleFiles" /\ req[c].method = "GET") =>
      LET p == local[c].filePath
          through == \E q \in DOMAIN fs :
                       /\ fs[q].kind = "file"
                       /\ Len(q) < Len(p)
                       /\ Begins(p, q \o <<Slash>>)
      IN /\ Len(out[c]) = 1
         /\ (p \in DOMAIN fs /\ fs[p].kind = "file") =>
              Answered(c, 200) /\ Reply(c).body = fs[p].data
         /\ (p \notin DOMAIN fs /\ ~through) => Answered(c, 404) /\ EmptyBody(c)
         /\ ((p \in DOMAIN fs /\ fs[p].kind = "dir") \/ through) =>
              Answered(c, 500) /\ EmptyBody(c)
         /\ local[c].err # "nil" => Reply(c).status # 200

C6_Witness ==
  \E c \in Slots :
    /\ Served(c)
    /\ handler[c] = "handleFiles"
    /\ req[c].method = "GET"
    /\ local[c].err = "EISDIR"
    /\ Answered(c, 500)

\* C7: "/user-agent" is answered 200, with any method, with the value of
\* the request's User-Agent header as the body, and with an empty body when
\* the request has no such header.
C7_UserAgentEchoed ==
  \A c \in Slots :
    (Served(c) /\ req[c].path = UserAgentPath) =>
      LET names == {UserAgentKey, UserAgentLower}
      IN /\ Answered(c, 200)
         /\ SentCount(wire[c], names) = 0 => EmptyBody(c)
         /\ SentCount(wire[c], names) = 1 =>
              \A v \in Sent(wire[c], names) : Reply(c).body = BytesOf(v)

C7_Witness ==
  \E c \in Slots :
    /\ Served(c)
    /\ req[c].path = UserAgentPath
    /\ req[c].method = "POST"
    /\ wire[c].headers = <<<<UserAgentLower, <<"a">>>>>>
    /\ Reply(c).body = BytesOf(<<"a">>)

\* C8: when parseRequest fails nothing is written to the connection, no
\* handler runs, no file system call is made, and the connection is closed.
C8_ParseFailureIsSilent ==
  \A c \in Slots :
    wire[c].kind \in {"badRequestLine", "badHeader", "eof"} =>
      /\ out[c] = <<>>
      /\ handler[c] = "none"
      /\ fsops[c] = {}
      /\ pc[c] \in {"close", "done"}
      /\ pc[c] = "done" => closed[c] = 1

C8_Witness ==
  \E c \in Slots :
    /\ wire[c].kind = "badHeader"
    /\ pc[c] = "done"
    /\ closed[c] = 1
    /\ out[c] = <<>>

\* C9 as claimed: every path the Files handler reads or writes is a direct
\* child of dataDir: dataDir, a slash, and a name without a slash that is
\* neither "." nor "..".
C9_DirectChildOfDataDir ==
  \A c \in Slots :
    \A o \in fsops[c] :
      o.op \in {"ReadFile", "WriteFile"} =>
        LET name == SubSeq(o.path, Len(dataDir) + 2, Len(o.path))
        IN /\ Begins(o.path, dataDir \o <<Slash>>)
           /\ name # <<>>
           /\ \A i \in 1..Len(name) : name[i] # Slash
           /\ name \notin {<<".">>, <<".", ".">>}

\* C10: a request to "/files/..." with a method other than GET and POST is
\* answered 405 with an empty body, without any file system call.
C10_MethodNotAllowed ==
  \A c \in Slots :
    (Served(c) /\ Begins(req[c].path, FilesPrefix) /\ req[c].method \notin {"GET", "POST"}) =>
      /\ Answered(c, 405)
      /\ EmptyBody(c)
      /\ fsops[c] = {}

C10_Witness ==
  \E c \in Slots :
    /\ Served(c)
    /\ req[c].path = FilesPrefix \o <<"a">>
    /\ req[c].method = "HEAD"
    /\ Answered(c, 405)
    /\ fsops[c] = {}

\* slot c wrote to its connection in this step
Wrote(c) == Len(out'[c]) > Len(out[c])

\* C11: every goroutine closes its connection exactly once, on every way
\* out of handleConnection: it has returned exactly when the connection is
\* closed, it has closed it once, and no step writes to a connection that
\* is closed.
C11_ClosedOnceAfterLastWrite ==
  /\ [](\A c \in Slots :
          /\ closed[c] \in {0, 1}
          /\ pc[c] = "done" <=> closed[c] = 1
          /\ pc[c] = "free" => closed[c] = 0 /\ out[c] = <<>>)
  /\ [][\A c \in Slots : Wrote(c) => closed[c] = 0 /\ closed'[c] = 0]_vars

C11_Witness ==
  \E c \in Slots :
    /\ pc[c] = "done"
    /\ closed[c] = 1
    /\ handler[c] = "handleFiles"
    /\ Answered(c, 500)
    /\ logs[c] = <<"Error creating directory">>

\* the goroutine of slot c takes this step
Stepped(c) == Running(c) /\ pc'[c] # pc[c]

\* what belongs to the connection of slot d
Connection(d) ==
  <<pc[d], wire[d], req[d], handler[d], local[d], out[d], closed[d], fsops[d], logs[d]>>

C13_LastWriterWins ==
  \A c, d \in Slots :
    (/\ c # d
     /\ Served(c) /\ Served(d)
     /\ req[c].method = "POST" /\ req[d].method = "POST"
     /\ Answered(c, 201) /\ Answered(d, 201)
     /\ local[c].filePath = local[d].filePath) =>
      fs[local[c].filePath].data \in {local[c].content, local[d].content}

\* the value of the last header line of w whose name is one of names
LastSent(w, names) ==
  LET idx == {i \in 1..Len(w.headers) : w.headers[i][1] \in names}
  IN w.headers[CHOOSE i \in idx : \A j \in idx : j <= i][2]

\* C14 as claimed: of several header lines with the same name the last one
\* counts: "/user-agent" echoes the value of the last User-Agent line, and
\* an Echo response is compressed exactly when the value of the last
\* Accept-Encoding line holds "gzip".
C14_LastValueWins ==
  \A c \in Slots :
    /\ (/\ Served(c)
        /\ req[c].path = UserAgentPath
        /\ SentCount(wire[c], {UserAgentKey, UserAgentLower}) >= 2) =>
         Reply(c).body = BytesOf(LastSent(wire[c], {UserAgentKey, UserAgentLower}))
    /\ (/\ Served(c)
        /\ Begins(req[c].path, EchoPrefix)
        /\ SentCount(wire[c], {AcceptEncodingKey, AcceptEncodingLower}) >= 2) =>
         ("Content-Encoding" \in DOMAIN Reply(c).header
            <=> Contains(LastSent(wire[c], {AcceptEncodingKey, AcceptEncodingLower}),
                         GzipToken))

\* the response of slot c carries Content-Encoding: gzip
Encoded(c) ==
  /\ "Content-Encoding" \in DOMAIN Reply(c).header
  /\ Reply(c).header["Content-Encoding"] = "gzip"

\* C15: an Echo response to a request with at most one Accept-Encoding
\* line is compressed exactly when there is such a line and its value holds
\* "gzip" somewhere; an Echo response carries Content-Encoding: gzip
\* exactly when its body is the gzip stream of the echoed string, and is
\* that string itself otherwise; no other response carries
\* Content-Encoding.
C15_GzipIffSubstring ==
  \A c \in Slots :
    (Served(c) /\ Len(out[c]) = 1) =>
      LET names == {AcceptEncodingKey, AcceptEncodingLower}
          s == SubSeq(req[c].path, Len(EchoPrefix) + 1, Len(req[c].path))
          zipped == Gunzip(Reply(c).body).ok /\ Gunzip(Reply(c).body).data = BytesOf(s)
      IN IF handler[c] = "handleEcho"
           THEN /\ Encoded(c) <=> zipped
                /\ "Content-Encoding" \in DOMAIN Reply(c).header => Encoded(c)
                /\ ~zipped => Reply(c).body = BytesOf(s)
                /\ SentCount(wire[c], names) = 0 => ~Encoded(c)
                /\ SentCount(wire[c], names) = 1 =>
                     \A v \in Sent(wire[c], names) : Encoded(c) <=> Contains(v, GzipToken)
           ELSE "Content-Encoding" \notin DOMAIN Reply(c).header

C15_Witness ==
  \E c \in Slots :
    /\ Served(c)
    /\ handler[c] = "handleEcho"
    /\ wire[c].headers = <<<<AcceptEncodingKey, <<"g","z","i","p",";","q","=","0">>>>>>
    /\ Encoded(c)
    /\ Gunzip(Reply(c).body).data = BytesOf(<<"a">>)

\* the Content-Type of the response of slot c, "" when it has none
ContentType(c) ==
  IF "Content-Type" \in DOMAIN Reply(c).header THEN Reply(c).header["Content-Type"] ELSE ""

\* C16: the Content-Type of a response follows from the handler and the
\* status: text/plain on the 200 of handleUserAgent and of handleEcho,
\* application/octet-stream on the 200 of handleFiles (a GET), and none on
\* any other response.
C16_ContentTypeByOutcome ==
  \A c \in Slots :
    Len(out[c]) = 1 =>
      /\ ContentType(c) =
           IF Reply(c).status = 200 /\ handler[c] \in {"handleUserAgent", "handleEcho"}
             THEN "text/plain"
           ELSE IF Reply(c).status = 200 /\ handler[c] = "handleFiles"
             THEN "application/octet-stream"
           ELSE ""
      /\ (Reply(c).status = 200 /\ handler[c] = "handleFiles") => req[c].method = "GET"
      /\ Reply(c).status \in {201, 404, 405, 500} => Reply(c).header = NoHeaders

C16_Witness ==
  \E c \in Slots :
    /\ Served(c)
    /\ handler[c] = "handleUserAgent"
    /\ wire[c].headers = <<>>
    /\ Answered(c, 200)
    /\ EmptyBody(c)
    /\ ContentType(c) = "text/plain"

\* C17: a goroutine that parsed a request has called sendResponse exactly
\* once when it closes the connection, whatever the handler and its branch:
\* nothing is sent before the handler's last statement, and once a response
\* is sent, also a 404 or a 500, the goroutine is at its return.
C17_OneResponsePerRequest ==
  \A c \in Slots :
    /\ Len(out[c]) <= 1
    /\ (wire[c].kind = "ok" /\ pc[c] \in {"close", "done"}) => Len(out[c]) = 1
    /\ Len(out[c]) = 1 => wire[c].kind = "ok" /\ pc[c] \in {"close", "done"}
    /\ (wire[c].kind = "ok" /\ closed[c] = 1) => Len(out[c]) = 1

C17_Witness ==
  \E c \in Slots :
    /\ Served(c)
    /\ handler[c] = "handleFiles"
    /\ req[c].method = "POST"
    /\ local[c].err = "EISDIR"
    /\ logs[c] = <<"Error writing file">>
    /\ out[c] = <<sendResponse(StatusInternalServerError, NilSlice, NoHeaders)>>
    /\ closed[c] = 1

\* the request of slot c is a POST to the Files handler with a complete
\* body of exactly maxRequestSize bytes
AtLimit(c) ==
  /\ wire[c].kind = "ok"
  /\ wire[c].method = "POST"
  /\ Begins(wire[c].path, FilesPrefix)
  /\ wire[c].framing.declared = maxRequestSize
  /\ BLen(wire[c].framing.sent) = maxRequestSize

\* C18: a POST whose body is exactly maxRequestSize bytes long is read in
\* full and, unless a file system call fails, stored in full and answered
\* 201; a body one byte longer, or more, is answered 500 without any file
\* system call, so the target is neither created, truncated nor modified;
\* and no file is ever longer than maxRequestSize.
C18_LimitExactAtBoundary ==
  /\ \A p \in DOMAIN fs : BLen(fs[p].data) <= maxRequestSize
  /\ \A c \in Slots :
       /\ (AtLimit(c) /\ pc[c] \in {"mkdirAll", "openFile", "writeData", "close", "done"}) =>
            /\ local[c].content = wire[c].framing.sent
            /\ logs[c] # <<"Error reading request body">>
       /\ (AtLimit(c) /\ pc[c] \in {"close", "done"}) =>
            \/ /\ Answered(c, 201)
               /\ local[c].err = "nil"
               /\ fs[local[c].filePath].data = wire[c].framing.sent
               /\ BLen(fs[local[c].filePath].data) = 1048576
            \/ /\ Answered(c, 500)
               /\ local[c].err \in {"ENOTDIR", "EISDIR"}
               /\ logs[c] \in {<<"Error creating directory">>, <<"Error writing file">>}
       /\ Oversized(c) =>
            /\ fsops[c] = {}
            /\ pc[c] \notin {"mkdirAll", "openFile", "writeData"}
            /\ pc[c] \in {"close", "done"} =>
                 /\ Answered(c, 500)
                 /\ logs[c] = <<"Error reading request body">>

C18_Witness ==
  \E c \in Slots :
    /\ AtLimit(c)
    /\ Served(c)
    /\ Answered(c, 201)
    /\ BLen(fs[local[c].filePath].data) = 1048576
    /\ fs[local[c].filePath].data = <<<<ByteY, maxRequestSize>>>>

\* C19: a request whose path begins with "/echo/" is handled by handleEcho
\* and answered 200, never 404: the path splits on "/" into exactly three
\* parts, the third being everything after "/echo/", also when that is
\* empty or holds a slash; the path "/echo/" is answered 200 with an empty
\* body, or with the gzip stream of the empty string.
C19_EchoNeverNotFound ==
  \A c \in Slots :
    (wire[c].kind = "ok" /\ Begins(req[c].path, EchoPrefix)) =>
      LET parts == SplitN(req[c].path, 3)
          s == SubSeq(req[c].path, Len(EchoPrefix) + 1, Len(req[c].path))
      IN /\ Len(parts) = 3
         /\ parts = << <<>>, <<"e","c","h","o">>, s >>
         /\ pc[c] \notin {"parseRequest", "route"} => handler[c] = "handleEcho"
         /\ pc[c] # "handleNotFound"
         /\ Served(c) =>
              /\ Answered(c, 200)
              /\ (s = <<>> /\ ~Encoded(c)) => EmptyBody(c)
              /\ (s = <<>> /\ Encoded(c)) => Gunzip(Reply(c).body).data = NoBytes

C19_Witness ==
  \E c \in Slots :
    /\ Served(c)
    /\ req[c].path = EchoPrefix
    /\ req[c].method = "DELETE"
    /\ Answered(c, 200)
    /\ EmptyBody(c)

\* the regular files of the file system f
Files(f) == {p \in DOMAIN f : f[p].kind = "file"}

\* the regular files this step creates, removes or changes
Changed ==
  {p \in Files(fs) \cup Files(fs') :
     \/ p \notin DOMAIN fs
     \/ p \notin DOMAIN fs'
     \/ fs'[p] # fs[p]}

\* C20: a step changes the file system only when it is a step of a
\* goroutine handling a POST to a path beginning with "/files/"; such a
\* step creates or changes at most one file, the one at dataDir joined with
\* the last element of the path, and otherwise at most adds directories; no
\* step removes anything or turns a file into a directory or back.
C20_OnlyPostChangesFiles ==
  [][/\ \A p \in DOMAIN fs : p \in DOMAIN fs' /\ fs'[p].kind = fs[p].kind
     /\ Cardinality(Changed) <= 1
     /\ fs' # fs =>
          \E c \in Slots :
            /\ Stepped(c)
            /\ wire[c].method = "POST"
            /\ Begins(wire[c].path, FilesPrefix)
            /\ handler[c] = "handleFiles"
            /\ Changed \subseteq {Join(dataDir, Base(wire[c].path))}]_vars

C20_Witness ==
  \E c \in Slots :
    LET a == dataDir \o <<Slash, "a">>
        other == dataDir \o <<Slash, "f","i","l","e","s">>
    IN /\ Served(c)
       /\ req[c].method = "POST"
       /\ Answered(c, 201)
       /\ local[c].filePath = other
       /\ a \in Files(fs)
       /\ a \in DOMAIN posted
       /\ fs[a].data = <<<<ByteX, 1>>, <<ByteY, 1>>>>
       /\ fs[a].data = posted[a].body
       /\ other \in Files(fs)

====
